---- MODULE Spec2Model ----
(***************************************************************************)
(* State-machine model of the finance tracker (src/app.py): the Category   *)
(* and Expense tables, the request handlers that change them, and the two  *)
(* read-only views (dashboard, export_csv).                                *)
(*                                                                         *)
(* A request by user u stands for a request whose flask-login session      *)
(* resolves current_user to u; login, logout and password handling are     *)
(* left to the framework.  HTTP form and query values are strings; a       *)
(* missing field is the empty string, which every handler treats the same  *)
(* way as None ("x or ''", "if x:").                                       *)
(*                                                                         *)
(* Each handler runs as one step, from the request to the commit (spec     *)
(* section 5: one request per invocation, committed before responding).    *)
(* Its response stays in `last' (mutating handlers) or `view' (dashboard,  *)
(* export_csv) until the step `respond' hands it to the client; no handler *)
(* reads a response, so taking the next request only after that step       *)
(* leaves the reachable stores as they are.                                *)
(***************************************************************************)
EXTENDS Integers, Sequences, FiniteSets, TLC

(***************************************************************************)
(* Bounds of the model.                                                    *)
(***************************************************************************)
MaxUsers == 2
\* the seeding loop of init_categories_for_user is run over the first
\* MaxDefaults entries of default_categories
MaxDefaults == 1
\* categories that can be created on top of the seeded ones
MaxExtraCategories == 1
MaxExpenses == 1

Users == 1..MaxUsers
MaxCategoryId == MaxUsers * MaxDefaults + MaxExtraCategories
CategoryIds == 1..MaxCategoryId
ExpenseIds == 1..MaxExpenses

(***************************************************************************)
(* Request inputs.                                                         *)
(***************************************************************************)
RawNames == {"", "  ", "Food", " Gym "}
\* category names as typed into the expense forms
RawCategories == {"", "Food", " Gym "}
RawDescriptions == {"", "lunch", " tea "}
RawAmounts == {"", "abc", "-5", "0", "12.5", "nan"}
RawDates == {"", "2024-13-01", "2024-01-31"}

\* str.strip() on the modelled strings
strip(s) ==
    CASE s = "  " -> ""
      [] s = " Gym " -> "Gym"
      [] s = " tea " -> "tea"
      [] OTHER -> s

(***************************************************************************)
(* float(): a parsed value is a number of cents, NaN, or a ValueError.     *)
(***************************************************************************)
Num(c) == [kind |-> "num", cents |-> c]
NaN == [kind |-> "nan", cents |-> 0]
ValueError == [kind |-> "ValueError", cents |-> 0]

float(s) ==
    CASE s = "12.5" -> Num(1250)
      [] s = "5" -> Num(500)
      [] s = "0" -> Num(0)
      [] s = "-5" -> Num(-500)
      [] s = "nan" -> NaN
      [] OTHER -> ValueError

\* "amount <= 0" on floats: every ordered comparison with NaN is False
NotPositive(a) == a.kind = "num" /\ a.cents <= 0

(***************************************************************************)
(* datetime.strptime(s, '%Y-%m-%d').date(): a date is its day number in    *)
(* 2024; 0 stands for the ValueError.                                      *)
(***************************************************************************)
strptime(s) ==
    CASE s = "2024-01-01" -> 1
      [] s = "2024-01-31" -> 31
      [] OTHER -> 0

\* the dates date.today() may return
Todays == {1}

default_categories ==
    <<"Food", "Rent", "Utilities", "Entertainment", "Transportation", "Subscriptions">>

VARIABLES users, categories, expenses, last, view

vars == <<users, categories, expenses, last, view>>

store == <<users, categories, expenses>>

\* the response of a mutating handler: its name and the messages it flashed
\* ("404" and "500" stand for the error pages)
Response(op, flash) == [op |-> op, flash |-> flash]

NoResponse == Response("none", <<>>)

\* what a view hands to its template or writes to the response body
View(op, u, query, status, rows, total, lines, cats, days) ==
    [op |-> op, user |-> u, query |-> query, status |-> status, rows |-> rows,
     total |-> total, lines |-> lines, cat_values |-> cats, day_values |-> days]

\* request.args of a view
Query(clear_filters, start, end, min_amount, max_amount, filter_category) ==
    [clear_filters |-> clear_filters, start |-> start, end |-> end,
     min_amount |-> min_amount, max_amount |-> max_amount,
     filter_category |-> filter_category]

NoView == View("none", 0, Query("", "", "", "", "", ""), 0, <<>>, Num(0), <<>>, <<>>, <<>>)

\* the largest id in use; a new row of an Integer primary key gets the next one
Max(S) == IF S = {} THEN 0 ELSE CHOOSE x \in S : \A y \in S : y <= x

\* db.session.delete(row)
Drop(f, k) == [i \in (DOMAIN f) \ {k} |-> f[i]]

\* no response is waiting to be sent
Idle == last = NoResponse /\ view = NoView

\* the response of the last request goes out
respond ==
    /\ ~Idle
    /\ last' = NoResponse
    /\ view' = NoView
    /\ UNCHANGED <<users, categories, expenses>>

Init ==
    /\ users = {}
    /\ categories = <<>>
    /\ expenses = <<>>
    /\ last = NoResponse
    /\ view = NoView

\* mutant of CategoryByName: the lookup forgets the owner
CategoryByName_AnyOwner(cats, name, user_id) ==
    {c \in DOMAIN cats : cats[c].name = name}

\* Category.query.filter_by(name=..., user_id=...): the matching rows
CategoryByName(cats, name, user_id) ==
    {c \in DOMAIN cats : cats[c].name = name /\ cats[c].user_id = user_id}

RECURSIVE SeedFrom(_, _, _)
SeedFrom(cats, user_id, i) ==
    IF i > MaxDefaults \/ i > Len(default_categories) THEN cats
    ELSE IF CategoryByName(cats, default_categories[i], user_id) # {}
         THEN SeedFrom(cats, user_id, i + 1)
         ELSE SeedFrom(cats @@ (Max(DOMAIN cats) + 1 :>
                                  [name |-> default_categories[i], user_id |-> user_id]),
                       user_id, i + 1)

init_categories_for_user(cats, user_id) == SeedFrom(cats, user_id, 1)

\* register: a valid form with an unused username
register ==
    /\ Idle
    /\ Cardinality(users) < MaxUsers
    /\ Max(DOMAIN categories) + MaxDefaults <= MaxCategoryId
    /\ LET new_user == Max(users) + 1
       IN /\ users' = users \cup {new_user}
          /\ categories' = init_categories_for_user(categories, new_user)
    /\ last' = Response("register", <<>>)
    /\ UNCHANGED <<expenses, view>>

(***************************************************************************)
(* Category handlers.                                                      *)
(***************************************************************************)
\* add_category: POST /edit_categories/add
add_category(u, new_category) ==
    LET new_name == strip(new_category)
        existing == CategoryByName(categories, new_name, u)
    IN /\ Idle
       /\ u \in users
       /\ IF new_name = ""
          THEN /\ last' = Response("add_category", <<"Name cannot be empty.">>)
               /\ UNCHANGED categories
          ELSE IF existing # {}
          THEN /\ last' = Response("add_category",
                                   <<"Category with this name already exists.">>)
               /\ UNCHANGED categories
          ELSE /\ Max(DOMAIN categories) < MaxCategoryId
               /\ categories' = categories @@ (Max(DOMAIN categories) + 1 :>
                                                [name |-> new_name, user_id |-> u])
               /\ last' = Response("add_category", <<"Category added!">>)
       /\ UNCHANGED <<users, expenses, view>>

\* edit_category: /edit_categories/<cat_id>/edit
edit_category(u, cat_id, name) ==
    LET new_name == strip(name)
        existing == CategoryByName(categories, new_name, u)
    IN /\ Idle
       /\ u \in users
       /\ IF cat_id \notin DOMAIN categories
          THEN /\ last' = Response("edit_category", <<"404">>)
               /\ UNCHANGED categories
          ELSE IF new_name = ""
          THEN /\ last' = Response("edit_category", <<"Name cannot be empty.">>)
               /\ UNCHANGED categories
          ELSE /\ categories' = [categories EXCEPT ![cat_id].name = new_name]
               /\ last' = Response("edit_category",
                     IF existing # {}
                     THEN <<"Category with this name already exists.", "Category renamed!">>
                     ELSE <<"Category renamed!">>)
       /\ UNCHANGED <<users, expenses, view>>

\* mutant of Category_expenses: the relationship reads the wrong column
Category_expenses_ByUser(exps, cat_id) ==
    {e \in DOMAIN exps : exps[e].user_id = cat_id}

\* cat.expenses: the rows of the relationship Expense.category_id -> Category.id
Category_expenses(exps, cat_id) ==
    {e \in DOMAIN exps : exps[e].category_id = cat_id}

\* delete_category: POST /edit_categories/<cat_id>/delete
delete_category(u, cat_id) ==
    /\ Idle
    /\ u \in users
    /\ IF cat_id \notin DOMAIN categories
       THEN /\ last' = Response("delete_category", <<"404">>)
            /\ UNCHANGED categories
       ELSE IF Category_expenses(expenses, cat_id) # {}
       THEN /\ last' = Response("delete_category",
                                <<"Cannot delete a category that is in use.">>)
            /\ UNCHANGED categories
       ELSE /\ categories' = Drop(categories, cat_id)
            /\ last' = Response("delete_category", <<"Category deleted!">>)
    /\ UNCHANGED <<users, expenses, view>>

(***************************************************************************)
(* Expense handlers.                                                       *)
(*                                                                         *)
(* db.session.commit() of a row whose Float amount is NaN depends on the   *)
(* configured DATABASE_URI: an engine with IEEE doubles stores it, an      *)
(* engine that binds NaN as NULL refuses the NOT NULL column and the       *)
(* request ends in an unhandled IntegrityError.  Both outcomes are taken.  *)
(***************************************************************************)
CommitOutcomes(amount) ==
    IF amount.kind = "nan" THEN {"stored", "IntegrityError"} ELSE {"stored"}

\* add_expense: POST /add
add_expense(u, description_raw, amount_raw, category_raw, date_raw) ==
    LET description == strip(description_raw)
        amount == float(strip(amount_raw))
        category_name == strip(category_raw)
        date_str == strip(date_raw)
        matches == CategoryByName(categories, category_name, u)
    IN /\ Idle
       /\ u \in users
       /\ IF amount = ValueError \/ NotPositive(amount)
          THEN /\ last' = Response("add_expense", <<"Amount must be a positive number">>)
               /\ UNCHANGED expenses
          ELSE IF description = "" \/ category_name = ""
          THEN /\ last' = Response("add_expense",
                                   <<"Invalid expense data. Please try again.">>)
               /\ UNCHANGED expenses
          ELSE IF matches = {}
          THEN /\ last' = Response("add_expense", <<"Invalid category">>)
               /\ UNCHANGED expenses
          ELSE /\ Max(DOMAIN expenses) < MaxExpenses
               /\ \E category \in matches, outcome \in CommitOutcomes(amount),
                     date_exp \in (IF date_str # "" /\ strptime(date_str) # 0
                                   THEN {strptime(date_str)} ELSE Todays) :
                     IF outcome = "stored"
                     THEN /\ expenses' = expenses @@ (Max(DOMAIN expenses) + 1 :>
                                 [description |-> description,
                                  amount |-> amount,
                                  category_id |-> category,
                                  date |-> date_exp,
                                  user_id |-> u])
                          /\ last' = Response("add_expense",
                                              <<"Expense added successfully!">>)
                     ELSE /\ last' = Response("add_expense", <<"500">>)
                          /\ UNCHANGED expenses
       /\ UNCHANGED <<users, categories, view>>

\* delete_expense: POST /delete/<expense_id>
delete_expense(u, expense_id) ==
    /\ Idle
    /\ u \in users
    /\ IF expense_id \notin DOMAIN expenses
       THEN /\ last' = Response("delete_expense", <<"404">>)
            /\ UNCHANGED expenses
       ELSE /\ expenses' = Drop(expenses, expense_id)
            /\ last' = Response("delete_expense", <<"Expense deleted successfully!">>)
    /\ UNCHANGED <<users, categories, view>>

\* edit_expense: POST /edit/<expense_id>
edit_expense(u, expense_id, description_raw, category_raw, amount_raw, date_raw) ==
    /\ Idle
    /\ u \in users
    /\ IF expense_id \notin DOMAIN expenses
       THEN /\ last' = Response("edit_expense", <<"404">>)
            /\ UNCHANGED expenses
       ELSE IF category_raw = "" /\ expenses[expense_id].category_id \notin DOMAIN categories
       THEN \* expense.category is None: AttributeError
            /\ last' = Response("edit_expense", <<"500">>)
            /\ UNCHANGED expenses
       ELSE
         LET expense == expenses[expense_id]
             description ==
                 strip(IF description_raw # "" THEN description_raw ELSE expense.description)
             category_name ==
                 strip(IF category_raw # "" THEN category_raw
                       ELSE categories[expense.category_id].name)
             matches == CategoryByName(categories, category_name, u)
             amount == IF amount_raw # "" THEN float(amount_raw) ELSE expense.amount
             date_exp == IF date_raw # "" THEN strptime(date_raw) ELSE expense.date
         IN IF matches = {}
            THEN /\ last' = Response("edit_expense", <<"Invalid category.">>)
                 /\ UNCHANGED expenses
            ELSE IF amount_raw # "" /\ (amount = ValueError \/ NotPositive(amount))
            THEN /\ last' = Response("edit_expense", <<"Amount must be positive">>)
                 /\ UNCHANGED expenses
            ELSE IF date_raw # "" /\ date_exp = 0
            THEN /\ last' = Response("edit_expense", <<"Invalid date.">>)
                 /\ UNCHANGED expenses
            ELSE \E category_obj \in matches,
                    outcome \in (IF amount_raw # "" THEN CommitOutcomes(amount)
                                 ELSE {"stored"}) :
                   IF outcome = "stored"
                   THEN /\ expenses' = [expenses EXCEPT ![expense_id] =
                               [description |-> description,
                                amount |-> amount,
                                category_id |-> category_obj,
                                date |-> date_exp,
                                user_id |-> expense.user_id]]
                        /\ last' = Response("edit_expense",
                                            <<"Expense updated successfully!">>)
                   ELSE /\ last' = Response("edit_expense", <<"500">>)
                        /\ UNCHANGED expenses
    /\ UNCHANGED <<users, categories, view>>

(***************************************************************************)
(* Read-only views.  A view is the data handed to the template or written  *)
(* to the CSV body; a request that dies in an unhandled exception is a     *)
(* 500 with no data.                                                       *)
(***************************************************************************)
\* parse_date: 0 stands for None
parse_date(s) == IF s = "" THEN 0 ELSE strptime(s)

\* SQL comparison of two Float values (numbers only: NaN compares per engine)
AmountGE(a, b) == a.kind = "num" /\ b.kind = "num" /\ a.cents >= b.cents

RECURSIVE SumCents(_, _)
SumCents(exps, S) ==
    IF S = {} THEN 0
    ELSE LET e == CHOOSE x \in S : TRUE
         IN exps[e].amount.cents + SumCents(exps, S \ {e})

\* round(sum(e.amount for e in expenses), 2); cents make the rounding exact
Total(exps, S) ==
    IF \E e \in S : exps[e].amount.kind = "nan" THEN NaN ELSE Num(SumCents(exps, S))

\* .order_by(Expense.date.desc()).all(): any order of the rows that is
\* descending by date (rows of equal date come in the engine's order)
OrderByDateDesc(exps, S) ==
    {rows \in [1..Cardinality(S) -> S] :
        /\ \A i, j \in DOMAIN rows : i < j =>
              /\ rows[i] # rows[j]
              /\ exps[rows[i]].date >= exps[rows[j]].date}

\* the date and amount filters shared by dashboard and export_csv
DateAmountFilter(exps, S, start_date, end_date, min_amount, max_amount) ==
    {e \in S :
        /\ start_date # 0 => exps[e].date >= start_date
        /\ end_date # 0 => exps[e].date <= end_date
        /\ min_amount # "" => AmountGE(exps[e].amount, float(min_amount))
        /\ max_amount # "" => AmountGE(float(max_amount), exps[e].amount)}

\* mutant of JoinCategoryName: the filter is applied without the join
JoinCategoryName_NoJoin(exps, cats, S, selected_category) ==
    {e \in S : \E c \in DOMAIN cats : cats[c].name = selected_category}

\* q.join(Category).filter(Category.name == selected_category)
JoinCategoryName(exps, cats, S, selected_category) ==
    {e \in S : /\ exps[e].category_id \in DOMAIN cats
               /\ cats[exps[e].category_id].name = selected_category}

\* q.filter(Category.name == filter_category) with no join: the query runs
\* over expense x category, and Query.all() returns each Expense once
CrossCategoryName(exps, cats, S, filter_category) ==
    {e \in S : \E c \in DOMAIN cats : cats[c].name = filter_category}

\* the category chart: sums of the user's expenses grouped by category name
cat_rows(exps, cats, u) ==
    LET mine == {e \in DOMAIN exps : exps[e].user_id = u /\ exps[e].category_id \in DOMAIN cats}
        names == {cats[exps[e].category_id].name : e \in mine}
    IN [n \in names |-> Total(exps, {e \in mine : cats[exps[e].category_id].name = n})]

\* the day chart: sums of the user's expenses grouped by date
day_rows(exps, u) ==
    LET mine == {e \in DOMAIN exps : exps[e].user_id = u}
    IN [d \in {exps[e].date : e \in mine} |-> Total(exps, {e \in mine : exps[e].date = d})]

BadNumber(s) == s # "" /\ float(s) = ValueError

\* the filtered query of dashboard (lines 176-200)
dashboard_query(exps, cats, u, start, end, min, max, filter_category) ==
    LET mine == {e \in DOMAIN exps : exps[e].user_id = u}
        ranged == DateAmountFilter(exps, mine, parse_date(strip(start)),
                                   parse_date(strip(end)), strip(min), strip(max))
        selected_category == strip(filter_category)
    IN IF selected_category # ""
       THEN JoinCategoryName(exps, cats, ranged, selected_category)
       ELSE ranged

\* dashboard: GET /dashboard
dashboard(u, clear_filters, start, end, min, max, filter_category) ==
    LET mine == {e \in DOMAIN expenses : expenses[e].user_id = u}
        shown == IF clear_filters = "true" THEN mine
                 ELSE dashboard_query(expenses, categories, u, start, end, min, max,
                                      filter_category)
        query == Query(clear_filters, start, end, min, max, filter_category)
    IN /\ Idle
       /\ u \in users
       /\ IF clear_filters # "true" /\ (BadNumber(strip(min)) \/ BadNumber(strip(max)))
          THEN view' = View("dashboard", u, query, 500, <<>>, Num(0), <<>>, <<>>, <<>>)
          ELSE \E rows \in OrderByDateDesc(expenses, shown) :
                 view' = View("dashboard", u, query, 200, rows, Total(expenses, shown),
                              <<>>, cat_rows(expenses, categories, u),
                              day_rows(expenses, u))
       /\ UNCHANGED <<users, categories, expenses, last>>

\* date.isoformat()
isoformat(d) ==
    CASE d = 1 -> "2024-01-01"
      [] d = 31 -> "2024-01-31"
      [] OTHER -> "?"

\* f"{amount:.2f}"
format_2f(a) ==
    CASE a = Num(500) -> "5.00"
      [] a = Num(1250) -> "12.50"
      [] a = NaN -> "nan"
      [] OTHER -> "?"

\* one CSV line of export_csv
CsvLine(exps, cats, e) ==
    <<isoformat(exps[e].date), exps[e].description,
      cats[exps[e].category_id].name, format_2f(exps[e].amount)>>

\* the filtered query of export_csv (lines 426-448)
export_query(exps, cats, u, start, end, min, max, category) ==
    LET mine == {e \in DOMAIN exps : exps[e].user_id = u}
        ranged == DateAmountFilter(exps, mine, parse_date(strip(start)),
                                   parse_date(strip(end)), strip(min), strip(max))
        filter_category == strip(category)
    IN IF filter_category # ""
       THEN CrossCategoryName(exps, cats, ranged, filter_category)
       ELSE ranged

\* export_csv: GET /export.csv (the filename header is not modelled)
export_csv(u, start, end, min, max, category) ==
    LET q == export_query(expenses, categories, u, start, end, min, max, category)
        query == Query("", start, end, min, max, category)
    IN /\ Idle
       /\ u \in users
       /\ IF \/ BadNumber(strip(min)) \/ BadNumber(strip(max))
             \/ \E e \in q : expenses[e].category_id \notin DOMAIN categories
          THEN view' = View("export_csv", u, query, 500, <<>>, Num(0), <<>>, <<>>, <<>>)
          ELSE \E rows \in OrderByDateDesc(expenses, q) :
                 view' = View("export_csv", u, query, 200, rows, Num(0),
                              [i \in DOMAIN rows |-> CsvLine(expenses, categories, rows[i])],
                              <<>>, <<>>)
       /\ UNCHANGED <<users, categories, expenses, last>>

(***************************************************************************)
(* Query strings of the two views.                                         *)
(***************************************************************************)
RawClear == {"", "true"}
RawStarts == {"", "2024-13-01", "2024-01-31"}
RawEnds == {"", "2024-01-01"}
RawMins == {"", "abc", "12.5"}
RawMaxs == {"", "5"}
RawFilterCategories == {"", "Food", " Gym "}

Next ==
    \/ register
    \/ \E u \in Users, n \in RawNames : add_category(u, n)
    \/ \E u \in Users, c \in CategoryIds, n \in RawNames : edit_category(u, c, n)
    \/ \E u \in Users, c \in CategoryIds : delete_category(u, c)
    \/ \E u \in Users, d \in RawDescriptions, a \in RawAmounts, c \in RawCategories,
          t \in RawDates : add_expense(u, d, a, c, t)
    \/ \E u \in Users, e \in ExpenseIds : delete_expense(u, e)
    \/ \E u \in Users, e \in ExpenseIds, d \in RawDescriptions, c \in RawCategories,
          a \in RawAmounts, t \in RawDates : edit_expense(u, e, d, c, a, t)
    \/ respond

Spec == Init /\ [][Next]_vars

(***************************************************************************)
(* The views are functions of the store and the query string.  They are    *)
(* checked from every store of a bounded family: both users registered,    *)
(* user 1's seeded category, ViewCategories further categories of any      *)
(* modelled name and owner (a second name, a duplicate of the first, or    *)
(* another user's), and up to MaxViewExpenses expenses with amounts in     *)
(* cents.                                                                  *)
(* Every such store is reachable: categories are created, renamed and      *)
(* deleted at will, and an expense comes to reference another user's       *)
(* category through edit_expense.                                          *)
(***************************************************************************)
MaxViewExpenses == 2
ViewCategories == 1

ViewCategoryRows == [name : {"Food", "Gym"}, user_id : Users]
ViewExpenseRows(cats) ==
    [description : {"lunch"}, amount : {Num(500), Num(1250)},
     category_id : DOMAIN cats, date : {1, 31}, user_id : Users]

InitView ==
    /\ users = Users
    /\ categories \in {cats \in [1..(1 + ViewCategories) -> ViewCategoryRows] :
                          cats[1] = [name |-> default_categories[1], user_id |-> 1]}
    /\ \E n \in 0..MaxViewExpenses : expenses \in [1..n -> ViewExpenseRows(categories)]
    /\ last = NoResponse
    /\ view = NoView

NextView ==
    \/ \E u \in Users, cl \in RawClear, s \in RawStarts, e \in RawEnds, mn \in RawMins,
          mx \in RawMaxs, c \in RawFilterCategories : dashboard(u, cl, s, e, mn, mx, c)
    \/ \E u \in Users, s \in RawStarts, e \in RawEnds, mn \in RawMins,
          mx \in RawMaxs, c \in RawFilterCategories : export_csv(u, s, e, mn, mx, c)
    \/ respond

SpecView == InitView /\ [][NextView]_vars

(***************************************************************************)
(* Properties.                                                             *)
(***************************************************************************)
Referencing(exps, c) == {e \in DOMAIN exps : exps[e].category_id = c}

OwnedNamed(cats, u, n) == {c \in DOMAIN cats : cats[c].user_id = u /\ cats[c].name = n}

RefIntegrity == \A e \in DOMAIN expenses : expenses[e].category_id \in DOMAIN categories

\* C1: delete_category on a category referenced by at least one expense
\* leaves the category (name, owner) and every expense referencing it in
\* place, and after every request each expense's category_id refers to an
\* existing category.
C1_DeleteInUseBlocked ==
    [][/\ \A u \in Users, c \in CategoryIds :
            (delete_category(u, c) /\ c \in DOMAIN categories
                /\ Referencing(expenses, c) # {}) =>
               /\ c \in DOMAIN categories'
               /\ categories'[c] = categories[c]
               /\ \A e \in Referencing(expenses, c) :
                     e \in DOMAIN expenses' /\ expenses'[e].category_id = c
        /\ RefIntegrity']_vars

C1_Witness ==
    /\ last = Response("delete_category", <<"Cannot delete a category that is in use.">>)
    /\ \E c \in DOMAIN categories : Referencing(expenses, c) # {}

\* C2: every stored expense whose category is set references a category
\* owned by the expense's own user.
C2_CategoryOfSameUser ==
    \A e \in DOMAIN expenses :
        expenses[e].category_id \in DOMAIN categories =>
            categories[expenses[e].category_id].user_id = expenses[e].user_id

\* a request of the mutating handlers issued with current_user = A
RequestBy(A) ==
    \/ \E n \in RawNames : add_category(A, n)
    \/ \E c \in CategoryIds, n \in RawNames : edit_category(A, c, n)
    \/ \E c \in CategoryIds : delete_category(A, c)
    \/ \E d \in RawDescriptions, a \in RawAmounts, c \in RawCategories, t \in RawDates :
          add_expense(A, d, a, c, t)
    \/ \E e \in ExpenseIds : delete_expense(A, e)
    \/ \E e \in ExpenseIds, d \in RawDescriptions, c \in RawCategories,
          a \in RawAmounts, t \in RawDates : edit_expense(A, e, d, c, a, t)

\* C3: a request issued by user A leaves every category and every expense
\* owned by another user unchanged.
C3_OthersUntouched ==
    [][\A A \in Users :
          RequestBy(A) =>
             /\ \A c \in DOMAIN categories :
                   categories[c].user_id # A =>
                      c \in DOMAIN categories' /\ categories'[c] = categories[c]
             /\ \A e \in DOMAIN expenses :
                   expenses[e].user_id # A =>
                      e \in DOMAIN expenses' /\ expenses'[e] = expenses[e]]_vars

\* C4: no two distinct categories of the same user have the same name.
C4_NamesUniquePerUser ==
    \A c1, c2 \in DOMAIN categories :
        (c1 # c2 /\ categories[c1].user_id = categories[c2].user_id) =>
            categories[c1].name # categories[c2].name

\* C5: for the same user, store and filter parameters, export_csv emits one
\* line per expense the dashboard (without clear_filters) displays, in a
\* date-descending order of exactly those expenses.
C5_ExportMatchesDashboard ==
    (view.op = "export_csv" /\ view.status = 200) =>
        /\ view.rows \in OrderByDateDesc(expenses,
               dashboard_query(expenses, categories, view.user, view.query.start,
                               view.query.end, view.query.min_amount,
                               view.query.max_amount, view.query.filter_category))
        /\ Len(view.lines) = Len(view.rows)

\* C6: every stored expense has an amount that is a number greater than 0.
C6_AmountPositive ==
    \A e \in DOMAIN expenses :
        expenses[e].amount.kind = "num" /\ expenses[e].amount.cents > 0

PositiveNumber(s) == float(s).kind = "num" /\ float(s).cents > 0

\* C7: an edit_expense POST whose supplied amount is not a positive number,
\* whose supplied date is not a valid date, or whose category name does not
\* resolve to a category of the current user, changes no record.
C7_RejectedEditSavesNothing ==
    [][\A u \in Users, e \in ExpenseIds, d \in RawDescriptions, c \in RawCategories,
          a \in RawAmounts, t \in RawDates :
          (/\ edit_expense(u, e, d, c, a, t)
           /\ e \in DOMAIN expenses
           /\ \/ a # "" /\ ~PositiveNumber(a)
              \/ t # "" /\ strptime(t) = 0
              \/ OwnedNamed(categories, u,
                            IF c # "" THEN strip(c)
                            ELSE categories[expenses[e].category_id].name) = {})
          => UNCHANGED store]_vars

\* C8: an accepted edit_expense POST that supplies no category leaves the
\* expense's category_id as it was, and likewise the description, amount and
\* date it does not supply.
C8_AbsentFieldsKept ==
    [][\A u \in Users, e \in ExpenseIds, d \in RawDescriptions, c \in RawCategories,
          a \in RawAmounts, t \in RawDates :
          (/\ edit_expense(u, e, d, c, a, t)
           /\ last' = Response("edit_expense", <<"Expense updated successfully!">>))
          => /\ c = "" => expenses'[e].category_id = expenses[e].category_id
             /\ d = "" => expenses'[e].description = expenses[e].description
             /\ a = "" => expenses'[e].amount = expenses[e].amount
             /\ t = "" => expenses'[e].date = expenses[e].date]_vars

\* the expenses the claim expects on the dashboard for a query
Expected(u, q) ==
    {x \in DOMAIN expenses :
        /\ expenses[x].user_id = u
        /\ q.clear_filters # "true" =>
              /\ strptime(q.start) # 0 => expenses[x].date >= strptime(q.start)
              /\ strptime(q.end) # 0 => expenses[x].date <= strptime(q.end)
              /\ strip(q.min_amount) # "" =>
                    expenses[x].amount.cents >= float(strip(q.min_amount)).cents
              /\ strip(q.max_amount) # "" =>
                    expenses[x].amount.cents <= float(strip(q.max_amount)).cents
              /\ strip(q.filter_category) # "" =>
                    categories[expenses[x].category_id].name = strip(q.filter_category)}

RECURSIVE SeqSum(_, _)
SeqSum(rows, i) ==
    IF i > Len(rows) THEN 0 ELSE expenses[rows[i]].amount.cents + SeqSum(rows, i + 1)

\* C9: the dashboard displays exactly the current user's expenses that pass
\* every present filter (all of them with clear_filters), each once, by
\* date descending, and its total is the sum of the displayed amounts.
C9_DashboardFilterAndTotal ==
    (view.op = "dashboard" /\ view.status = 200) =>
        /\ {view.rows[i] : i \in DOMAIN view.rows} = Expected(view.user, view.query)
        /\ Len(view.rows) = Cardinality(Expected(view.user, view.query))
        /\ \A i, j \in DOMAIN view.rows :
              i < j => expenses[view.rows[i]].date >= expenses[view.rows[j]].date
        /\ view.total = Num(SeqSum(view.rows, 1))

C9_Witness ==
    /\ view.op = "dashboard" /\ view.status = 200
    /\ view.query.clear_filters = "" /\ view.query.filter_category = "Food"
    /\ view.query.start = "2024-01-31" /\ view.query.min_amount = "12.5"
    /\ Len(view.rows) = 1
    /\ view.total = expenses[view.rows[1]].amount
    /\ \E x \in DOMAIN expenses : expenses[x].user_id = view.user /\ x # view.rows[1]

\* C10: add_category with a non-empty name creates exactly one category of
\* that name for the user when the user has none, and is rejected, leaving
\* the categories unchanged, when the user already has one; so repeating
\* the request leaves the user with one category of that name.
C10_AddCategoryOnce ==
    [][\A u \in Users, n \in RawNames :
          (add_category(u, n) /\ strip(n) # "") =>
             IF OwnedNamed(categories, u, strip(n)) = {}
             THEN /\ Cardinality(OwnedNamed(categories', u, strip(n))) = 1
                  /\ \E c \in DOMAIN categories' :
                        /\ c \notin DOMAIN categories
                        /\ categories = Drop(categories', c)
             ELSE categories' = categories]_vars

C10_Witness ==
    /\ last = Response("add_category", <<"Category with this name already exists.">>)
    /\ \E u \in users : Cardinality(OwnedNamed(categories, u, "Gym")) = 1
====
